---- MODULE Spec2Model ----
(***************************************************************************)
(* Bandwidth scheduler of qBittorrent with multi-profile speed schedules.  *)
(*                                                                         *)
(* BandwidthScheduler (src/src/base/bittorrent/speedprofile.h, second      *)
(* half) reads the wall clock and the preferences store, resolves the      *)
(* active speed profile (getCurrentSpeedProfile, isDayMatch), evaluates    *)
(* the legacy alternative-limits window (isTimeForAlternative) and         *)
(* announces both on start() and on every timer tick (onTimeout).          *)
(*                                                                         *)
(* A QTime is modelled by its position on a coarse clock 0..MaxTime; QTime *)
(* comparisons are integer comparisons of that position.  The day of the   *)
(* week is QDate::dayOfWeek(): 1 = Monday .. 7 = Sunday.                   *)
(***************************************************************************)
EXTENDS Integers, Sequences, FiniteSets

\* ------------------------------------------------------------------ bounds

\* Latest instant of the modelled day: times of day are 0..MaxTime.
MaxTime == 2

\* Longest list of schedule entries the store hands out.
MaxEntries == 2

\* --------------------------------------------------- Scheduler::Days codes

EveryDay == 0
Weekday == 1
Weekend == 2
Monday == 3
Tuesday == 4
Wednesday == 5
Thursday == 6
Friday == 7
Saturday == 8
Sunday == 9

\* The ten selector values the switch statements name.
RecognizedDays == {EveryDay, Weekday, Weekend, Monday, Tuesday, Wednesday,
                   Thursday, Friday, Saturday, Sunday}

\* Values a static_cast<Scheduler::Days>(int) can also produce: -1 is the
\* current index of a combo box with no selection, 10 the first code after Sunday.
UnrecognizedDays == {-1, 10}

DaySelectors == RecognizedDays \cup UnrecognizedDays

\* QDate::dayOfWeek()
DaysOfWeek == 1..7

\* QTime::currentTime() and the times a QTimeEdit yields.
Times == 0..MaxTime

\* Profile names: the empty QString and the names of the spec's scenario.
ProfileNames == {"", "Work", "Night", "Normal"}

\* The ms-since-midnight of a QTime that holds no time (a default-constructed
\* QTime, or text QTime::fromString could not read): below every valid time,
\* and QTime's comparison operators compare it like any other.
InvalidTime == -1

\* QTime::isValid
QTimeIsValid(t) == t # InvalidTime

\* ---------------------------------------------------------------- state

VARIABLES
    now,                    \* QTime::currentTime()
    day,                    \* QDate::currentDate().dayOfWeek()
    schedules,              \* Preferences::getScheduleEntries()
    defaultSpeedProfile,    \* Preferences::getDefaultSpeedProfile()
    schedulerStartTime,     \* Preferences::getSchedulerStartTime()
    schedulerEndTime,       \* Preferences::getSchedulerEndTime()
    schedulerDays,          \* Preferences::getSchedulerDays()
    timerActive,            \* m_timer.isActive()
    m_lastAlternative,      \* last announced legacy value
    m_lastActiveProfile,    \* last announced profile name
    lastOp,                 \* the step taken last
    emitted,                \* signals emitted by the last step, in order
    cellsBefore,            \* <<m_lastAlternative, m_lastActiveProfile>> before the last step
    lastEmitted,            \* per signal, the value of its latest emission (<<>> if none yet)
    resolvedHistory,        \* names resolved by the last two ticks, latest last
    subject,                \* the value a pure function is applied to, when it is
                            \* neither the clock nor the store (<<>> otherwise)
    result                  \* value returned by the pure function applied last

vars == <<now, day, schedules, defaultSpeedProfile, schedulerStartTime,
          schedulerEndTime, schedulerDays, timerActive, m_lastAlternative,
          m_lastActiveProfile, lastOp, emitted, cellsBefore, lastEmitted,
          resolvedHistory, subject, result>>

clockVars == <<now, day>>
storeVars == <<schedules, defaultSpeedProfile, schedulerStartTime,
               schedulerEndTime, schedulerDays>>
schedulerVars == <<timerActive, m_lastAlternative, m_lastActiveProfile,
                   emitted, cellsBefore, lastEmitted, resolvedHistory>>

\* ----------------------------------------------------------- data model

\* SpeedSchedule::ScheduleEntry
ScheduleEntry(startTime, endTime, days, profileName) ==
    [startTime |-> startTime, endTime |-> endTime, days |-> days,
     profileName |-> profileName]

\* struct SpeedProfile
SpeedProfile(name, downloadLimit, uploadLimit) ==
    [name |-> name, downloadLimit |-> downloadLimit, uploadLimit |-> uploadLimit]

\* SpeedProfile::isValid, with unlimited (-1) refused
SpeedProfileIsValidNonNegative(profile) ==
    (profile.name # "") /\ (profile.downloadLimit >= 0) /\ (profile.uploadLimit >= 0)

\* SpeedProfile::isValid
SpeedProfileIsValid(profile) ==
    (profile.name # "") /\ (profile.downloadLimit >= -1) /\ (profile.uploadLimit >= -1)

\* ScheduleEntry::isValid, with the end time left unchecked
ScheduleEntryIsValidStartOnly(entry) ==
    QTimeIsValid(entry.startTime) /\ (entry.profileName # "")

\* ScheduleEntry::isValid
ScheduleEntryIsValid(entry) ==
    QTimeIsValid(entry.startTime) /\ QTimeIsValid(entry.endTime) /\ (entry.profileName # "")

\* ------------------------------------------------------------- resolver

\* BandwidthScheduler::isDayMatch, with a comparison off by one day
isDayMatchOffByOne(schedulerDays_, currentDay) ==
    CASE schedulerDays_ = EveryDay -> TRUE
      [] schedulerDays_ = Weekday -> (currentDay >= 1 /\ currentDay <= 5)
      [] schedulerDays_ = Weekend -> (currentDay = 6 \/ currentDay = 7)
      [] schedulerDays_ \in {Monday, Tuesday, Wednesday, Thursday, Friday,
                             Saturday, Sunday} ->
            LET offset == Monday
                dayOfWeek == schedulerDays_ - offset
            IN  currentDay = dayOfWeek
      [] OTHER -> FALSE

\* BandwidthScheduler::isDayMatch, with Saturday counted as a weekday
isDayMatchWeekdayToSaturday(schedulerDays_, currentDay) ==
    CASE schedulerDays_ = EveryDay -> TRUE
      [] schedulerDays_ = Weekday -> (currentDay >= 1 /\ currentDay <= 6)
      [] schedulerDays_ = Weekend -> (currentDay = 6 \/ currentDay = 7)
      [] schedulerDays_ \in {Monday, Tuesday, Wednesday, Thursday, Friday,
                             Saturday, Sunday} ->
            LET offset == Monday - 1
                dayOfWeek == schedulerDays_ - offset
            IN  currentDay = dayOfWeek
      [] OTHER -> FALSE

\* BandwidthScheduler::isDayMatch
isDayMatch(schedulerDays_, currentDay) ==
    CASE schedulerDays_ = EveryDay -> TRUE
      [] schedulerDays_ = Weekday -> (currentDay >= 1 /\ currentDay <= 5)
      [] schedulerDays_ = Weekend -> (currentDay = 6 \/ currentDay = 7)
      [] schedulerDays_ \in {Monday, Tuesday, Wednesday, Thursday, Friday,
                             Saturday, Sunday} ->
            LET offset == Monday - 1
                dayOfWeek == schedulerDays_ - offset
            IN  currentDay = dayOfWeek
      [] OTHER -> FALSE

\* The time-range test, with the upper bound of a normal range exclusive
inTimeRangeExclusiveEnd(entry, t) ==
    IF entry.startTime <= entry.endTime
    THEN (t >= entry.startTime /\ t < entry.endTime)
    ELSE (t >= entry.startTime \/ t <= entry.endTime)

\* The time-range test, with a wrap-around range tested like a normal one
inTimeRangeNoWrap(entry, t) ==
    IF entry.startTime <= entry.endTime
    THEN (t >= entry.startTime /\ t <= entry.endTime)
    ELSE (t >= entry.startTime /\ t <= entry.endTime)

\* The time test, with the wrap-around branch taken when startTime == endTime
inTimeRangeStrictBranch(entry, t) ==
    IF entry.startTime < entry.endTime
    THEN (t >= entry.startTime /\ t <= entry.endTime)
    ELSE (t >= entry.startTime \/ t <= entry.endTime)

\* The time test, with the upper bound of a range of one instant left open
inTimeRangeOpenInstant(entry, t) ==
    IF entry.startTime <= entry.endTime
    THEN (t >= entry.startTime /\ (t <= entry.endTime \/ entry.startTime = entry.endTime))
    ELSE (t >= entry.startTime \/ t <= entry.endTime)

\* The time-range test of getCurrentSpeedProfile's loop body
inTimeRange(entry, t) ==
    IF entry.startTime <= entry.endTime
    THEN (t >= entry.startTime /\ t <= entry.endTime)
    ELSE (t >= entry.startTime \/ t <= entry.endTime)

\* getCurrentSpeedProfile, returning the last matching entry instead of the first
getCurrentSpeedProfileLastMatch(entries, t, d, defaultProfile) ==
    LET RECURSIVE scan(_)
        scan(i) ==
            IF i < 1 THEN defaultProfile
            ELSE IF ~isDayMatch(entries[i].days, d) THEN scan(i - 1)
            ELSE IF inTimeRange(entries[i], t) THEN entries[i].profileName
            ELSE scan(i - 1)
    IN  scan(Len(entries))

\* getCurrentSpeedProfile, falling back to the empty name
getCurrentSpeedProfileEmptyFallback(entries, t, d, defaultProfile) ==
    LET RECURSIVE scan(_)
        scan(i) ==
            IF i > Len(entries) THEN ""
            ELSE IF ~isDayMatch(entries[i].days, d) THEN scan(i + 1)
            ELSE IF inTimeRange(entries[i], t) THEN entries[i].profileName
            ELSE scan(i + 1)
    IN  scan(1)

\* BandwidthScheduler::getCurrentSpeedProfile on a snapshot of its reads
\* getCurrentSpeedProfile, passing over a matching entry whose profileName no
\* stored profile carries
getCurrentSpeedProfileSkipDangling(entries, t, d, defaultProfile) ==
    LET RECURSIVE scan(_)
        scan(i) ==
            IF i > Len(entries) THEN defaultProfile
            ELSE IF ~isDayMatch(entries[i].days, d) THEN scan(i + 1)
            ELSE IF inTimeRange(entries[i], t) /\ entries[i].profileName \in {"Work", "Night", "Normal"}
                 THEN entries[i].profileName
            ELSE scan(i + 1)
    IN  scan(1)

getCurrentSpeedProfile(entries, t, d, defaultProfile) ==
    LET RECURSIVE scan(_)
        scan(i) ==
            IF i > Len(entries) THEN defaultProfile
            ELSE IF ~isDayMatch(entries[i].days, d) THEN scan(i + 1)
            ELSE IF inTimeRange(entries[i], t) THEN entries[i].profileName
            ELSE scan(i + 1)
    IN  scan(1)

\* ------------------------------------------------- legacy evaluator

\* isTimeForAlternative, with the flag left false when the window is swapped
isTimeForAlternativeNoFlag(startTime, endTime, t, schedulerDays_, d) ==
    LET swapped == startTime > endTime
        start_ == IF swapped THEN endTime ELSE startTime
        end_ == IF swapped THEN startTime ELSE endTime
        alternative == FALSE
    IN  IF (start_ <= t) /\ (end_ >= t)
        THEN CASE schedulerDays_ = EveryDay -> {~alternative}
               [] schedulerDays_ \in {Monday, Tuesday, Wednesday, Thursday, Friday,
                                      Saturday, Sunday} ->
                     LET offset == Monday - 1
                         dayOfWeek == schedulerDays_ - offset
                     IN  {IF d = dayOfWeek THEN ~alternative ELSE alternative}
               [] schedulerDays_ = Weekday ->
                     {IF (d >= 1) /\ (d <= 5) THEN ~alternative ELSE alternative}
               [] schedulerDays_ = Weekend ->
                     {IF (d = 6) \/ (d = 7) THEN ~alternative ELSE alternative}
               [] OTHER -> BOOLEAN
        ELSE {alternative}

\* isTimeForAlternative, with the bounds of the window excluded
isTimeForAlternativeOpenWindow(startTime, endTime, t, schedulerDays_, d) ==
    LET swapped == startTime > endTime
        start_ == IF swapped THEN endTime ELSE startTime
        end_ == IF swapped THEN startTime ELSE endTime
        alternative == swapped
    IN  IF (start_ < t) /\ (end_ > t)
        THEN CASE schedulerDays_ = EveryDay -> {~alternative}
               [] schedulerDays_ \in {Monday, Tuesday, Wednesday, Thursday, Friday,
                                      Saturday, Sunday} ->
                     LET offset == Monday - 1
                         dayOfWeek == schedulerDays_ - offset
                     IN  {IF d = dayOfWeek THEN ~alternative ELSE alternative}
               [] schedulerDays_ = Weekday ->
                     {IF (d >= 1) /\ (d <= 5) THEN ~alternative ELSE alternative}
               [] schedulerDays_ = Weekend ->
                     {IF (d = 6) \/ (d = 7) THEN ~alternative ELSE alternative}
               [] OTHER -> BOOLEAN
        ELSE {alternative}

\* isTimeForAlternative, with Sunday left out of the weekend
isTimeForAlternativeWeekendSaturday(startTime, endTime, t, schedulerDays_, d) ==
    LET swapped == startTime > endTime
        start_ == IF swapped THEN endTime ELSE startTime
        end_ == IF swapped THEN startTime ELSE endTime
        alternative == swapped
    IN  IF (start_ <= t) /\ (end_ >= t)
        THEN CASE schedulerDays_ = EveryDay -> {~alternative}
               [] schedulerDays_ \in {Monday, Tuesday, Wednesday, Thursday, Friday,
                                      Saturday, Sunday} ->
                     LET offset == Monday - 1
                         dayOfWeek == schedulerDays_ - offset
                     IN  {IF d = dayOfWeek THEN ~alternative ELSE alternative}
               [] schedulerDays_ = Weekday ->
                     {IF (d >= 1) /\ (d <= 5) THEN ~alternative ELSE alternative}
               [] schedulerDays_ = Weekend ->
                     {IF (d = 6) THEN ~alternative ELSE alternative}
               [] OTHER -> BOOLEAN
        ELSE {alternative}

\* BandwidthScheduler::isTimeForAlternative on a snapshot of its reads: the set
\* of values it can return.  Q_UNREACHABLE() is undefined behaviour, so an
\* unrecognized selector inside the window can yield either value.
isTimeForAlternative(startTime, endTime, t, schedulerDays_, d) ==
    LET swapped == startTime > endTime
        start_ == IF swapped THEN endTime ELSE startTime
        end_ == IF swapped THEN startTime ELSE endTime
        alternative == swapped
    IN  IF (start_ <= t) /\ (end_ >= t)
        THEN CASE schedulerDays_ = EveryDay -> {~alternative}
               [] schedulerDays_ \in {Monday, Tuesday, Wednesday, Thursday, Friday,
                                      Saturday, Sunday} ->
                     LET offset == Monday - 1
                         dayOfWeek == schedulerDays_ - offset
                     IN  {IF d = dayOfWeek THEN ~alternative ELSE alternative}
               [] schedulerDays_ = Weekday ->
                     {IF (d >= 1) /\ (d <= 5) THEN ~alternative ELSE alternative}
               [] schedulerDays_ = Weekend ->
                     {IF (d = 6) \/ (d = 7) THEN ~alternative ELSE alternative}
               [] OTHER -> BOOLEAN
        ELSE {alternative}

\* Whether isTimeForAlternative runs into Q_UNREACHABLE(): the switch is entered
\* (now is inside the window) with a selector none of its cases names.  A build
\* with assertions aborts there.
isTimeForAlternativeUnreachable(startTime, endTime, t, schedulerDays_) ==
    LET swapped == startTime > endTime
        start_ == IF swapped THEN endTime ELSE startTime
        end_ == IF swapped THEN startTime ELSE endTime
    IN  /\ (start_ <= t) /\ (end_ >= t)
        /\ schedulerDays_ \notin {EveryDay, Monday, Tuesday, Wednesday, Thursday,
                                  Friday, Saturday, Sunday, Weekday, Weekend}

\* ------------------------------------------------------------- signals

\* emit bandwidthLimitRequested(alternative)
BandwidthLimitRequested(alternative) ==
    [signal |-> "bandwidthLimitRequested", alternative |-> alternative, profile |-> ""]

\* emit speedProfileRequested(profile)
SpeedProfileRequested(profile) ==
    [signal |-> "speedProfileRequested", alternative |-> FALSE, profile |-> profile]

\* The emissions of one signal among a sequence of emissions.
EmissionsOf(events, signal) == SelectSeq(events, LAMBDA e : e.signal = signal)

\* Per signal, the value of its latest emission once `events` have been emitted.
Recorded(latest, events) ==
    LET alts == EmissionsOf(events, "bandwidthLimitRequested")
        profiles == EmissionsOf(events, "speedProfileRequested")
    IN  [alternative |-> IF alts = <<>> THEN latest.alternative
                         ELSE <<alts[Len(alts)].alternative>>,
         profile |-> IF profiles = <<>> THEN latest.profile
                     ELSE <<profiles[Len(profiles)].profile>>]

\* The last two elements of a sequence.
LastTwo(seq) == IF Len(seq) <= 2 THEN seq ELSE SubSeq(seq, Len(seq) - 1, Len(seq))

\* ------------------------------------------------- scheduler at rest

\* The scheduler as constructed: timer connected but not started, members at
\* their default values, nothing emitted.
SchedulerConstructed ==
    /\ timerActive = FALSE
    /\ m_lastAlternative = FALSE
    /\ m_lastActiveProfile = ""
    /\ emitted = <<>>
    /\ cellsBefore = <<m_lastAlternative, m_lastActiveProfile>>
    /\ lastEmitted = [alternative |-> <<>>, profile |-> <<>>]
    /\ resolvedHistory = <<>>

\* The legacy window left at rest in the specifications that do not read it.
LegacyWindowAtRest ==
    /\ schedulerStartTime = 0
    /\ schedulerEndTime = MaxTime
    /\ schedulerDays = EveryDay

\* Sequences over S of length 0..n
SeqUpTo(S, n) == UNION {[1..k -> S] : k \in 0..n}

\* ------------------------------------ specification: isDayMatch applied

\* The entry whose day selector isDayMatch is applied to.
InitDay ==
    /\ now \in {0}
    /\ day \in DaysOfWeek
    /\ \E d \in DaySelectors : schedules = <<ScheduleEntry(0, MaxTime, d, "Work")>>
    /\ defaultSpeedProfile = "Normal"
    /\ LegacyWindowAtRest
    /\ SchedulerConstructed
    /\ lastOp = "none"
    /\ subject = <<>>
    /\ result = <<>>

\* getCurrentSpeedProfile's call isDayMatch(entry.days, day)
applyIsDayMatch ==
    /\ lastOp = "none"
    /\ lastOp' = "isDayMatch"
    /\ result' = <<isDayMatch(schedules[1].days, day)>>
    /\ UNCHANGED <<clockVars, storeVars, schedulerVars, subject>>

NextDay == applyIsDayMatch

SpecDay == InitDay /\ [][NextDay]_vars

\* ---------------------------- specification: getCurrentSpeedProfile applied

\* A call of getCurrentSpeedProfile against the current clock and store
applyGetCurrentSpeedProfile ==
    /\ lastOp = "none"
    /\ lastOp' = "getCurrentSpeedProfile"
    /\ result' = <<getCurrentSpeedProfile(schedules, now, day, defaultSpeedProfile)>>
    /\ UNCHANGED <<clockVars, storeVars, schedulerVars, subject>>

\* One entry of any shape, any clock, a default that is empty, equal to the
\* entry's profile name or different from it.
InitSingle ==
    /\ now \in Times
    /\ day \in DaysOfWeek
    /\ \E s \in Times, e \in Times, d \in DaySelectors, p \in {"Work", "Night"} :
          schedules = <<ScheduleEntry(s, e, d, p)>>
    /\ defaultSpeedProfile \in {"", "Work", "Normal"}
    /\ LegacyWindowAtRest
    /\ SchedulerConstructed
    /\ lastOp = "none"
    /\ subject = <<>>
    /\ result = <<>>

NextSingle == applyGetCurrentSpeedProfile

SpecSingle == InitSingle /\ [][NextSingle]_vars

\* Entries of the lists the resolver is applied to: every window over the
\* clock, bound as in the spec's scenario (a weekday profile, an every-day one).
ResolverEntries ==
    {ScheduleEntry(s, e, Weekday, "Work") : s \in Times, e \in Times}
    \cup {ScheduleEntry(s, e, EveryDay, "Night") : s \in Times, e \in Times}

\* Days of the week the lists are resolved on: the Tuesday and the Saturday of
\* the spec's scenario (every day of the week is covered with single entries).
ResolverDaysOfWeek == {2, 6}

InitResolve ==
    /\ now \in Times
    /\ day \in ResolverDaysOfWeek
    /\ schedules \in SeqUpTo(ResolverEntries, MaxEntries)
    /\ defaultSpeedProfile \in {"", "Work", "Normal"}
    /\ LegacyWindowAtRest
    /\ SchedulerConstructed
    /\ lastOp = "none"
    /\ subject = <<>>
    /\ result = <<>>

NextResolve == applyGetCurrentSpeedProfile

SpecResolve == InitResolve /\ [][NextResolve]_vars

\* ------------------------------------------ specification: the scheduler

\* Days of the week the loop runs on: Friday and Saturday.
LoopDaysOfWeek == {5, 6}

\* Entries the store holds while the loop runs: the spec's scenario, a weekday
\* window and an every-day window crossing midnight.
LoopEntries ==
    {ScheduleEntry(0, 1, Weekday, "Work"), ScheduleEntry(MaxTime, 0, EveryDay, "Night")}

\* Legacy windows the store holds while the loop runs.
LegacyTimes == {0, 1}
LegacyDays == {EveryDay, Weekend}

\* Default profile names the store holds while the loop runs.
LoopDefaults == {"", "Normal"}

Init ==
    /\ now \in Times
    /\ day \in LoopDaysOfWeek
    /\ schedules = <<>>
    /\ defaultSpeedProfile \in LoopDefaults
    /\ schedulerStartTime \in LegacyTimes
    /\ schedulerEndTime \in LegacyTimes
    /\ schedulerDays \in LegacyDays
    /\ timerActive = FALSE
    /\ m_lastAlternative \in BOOLEAN
    /\ m_lastActiveProfile = ""
    /\ lastOp = "none"
    /\ emitted = <<>>
    /\ cellsBefore = <<m_lastAlternative, m_lastActiveProfile>>
    /\ lastEmitted = [alternative |-> <<>>, profile |-> <<>>]
    /\ resolvedHistory = <<>>
    /\ subject = <<>>
    /\ result = <<>>

\* BandwidthScheduler::start, announcing the legacy value only on a change
startAnnounceOnChange ==
    \E alternative \in isTimeForAlternative(schedulerStartTime, schedulerEndTime,
                                            now, schedulerDays, day) :
        LET events == IF alternative # m_lastAlternative
                      THEN <<BandwidthLimitRequested(alternative)>> ELSE <<>>
        IN  /\ m_lastAlternative' = alternative
            /\ emitted' = events
            /\ timerActive' = TRUE
            /\ lastOp' = "start"
            /\ cellsBefore' = <<m_lastAlternative, m_lastActiveProfile>>
            /\ lastEmitted' = Recorded(lastEmitted, events)
            /\ UNCHANGED <<m_lastActiveProfile, resolvedHistory, clockVars,
                           storeVars, subject, result>>

\* BandwidthScheduler::start, storing the resolved profile as well
startWritesProfile ==
    \E alternative \in isTimeForAlternative(schedulerStartTime, schedulerEndTime,
                                            now, schedulerDays, day) :
        LET events == <<BandwidthLimitRequested(alternative)>>
        IN  /\ m_lastAlternative' = alternative
            /\ emitted' = events
            /\ timerActive' = TRUE
            /\ lastOp' = "start"
            /\ cellsBefore' = <<m_lastAlternative, m_lastActiveProfile>>
            /\ lastEmitted' = Recorded(lastEmitted, events)
            /\ m_lastActiveProfile' =
                  getCurrentSpeedProfile(schedules, now, day, defaultSpeedProfile)
            /\ UNCHANGED <<resolvedHistory, clockVars, storeVars, subject, result>>

\* BandwidthScheduler::start.  It is a public method with no guard: its owner
\* may call it again while the timer runs, which restarts the timer.
start ==
    \E alternative \in isTimeForAlternative(schedulerStartTime, schedulerEndTime,
                                            now, schedulerDays, day) :
        LET events == <<BandwidthLimitRequested(alternative)>>
        IN  /\ m_lastAlternative' = alternative
            /\ emitted' = events
            /\ timerActive' = TRUE
            /\ lastOp' = "start"
            /\ cellsBefore' = <<m_lastAlternative, m_lastActiveProfile>>
            /\ lastEmitted' = Recorded(lastEmitted, events)
            /\ UNCHANGED <<m_lastActiveProfile, resolvedHistory, clockVars,
                           storeVars, subject, result>>

\* BandwidthScheduler::onTimeout, comparing the resolved profile with the wrong cell:
\* the profile is announced whenever the legacy value changed
onTimeoutSharedCell ==
    /\ timerActive
    /\ \E alternative \in isTimeForAlternative(schedulerStartTime, schedulerEndTime,
                                               now, schedulerDays, day) :
        LET currentProfile ==
                getCurrentSpeedProfile(schedules, now, day, defaultSpeedProfile)
            alternativeChanged == alternative # m_lastAlternative
            profileChanged == alternativeChanged
            events ==
                (IF alternativeChanged
                 THEN <<BandwidthLimitRequested(alternative)>> ELSE <<>>)
                \o (IF profileChanged
                    THEN <<SpeedProfileRequested(currentProfile)>> ELSE <<>>)
        IN  /\ m_lastAlternative' =
                  IF alternativeChanged THEN alternative ELSE m_lastAlternative
            /\ m_lastActiveProfile' =
                  IF profileChanged THEN currentProfile ELSE m_lastActiveProfile
            /\ emitted' = events
            /\ lastOp' = "onTimeout"
            /\ cellsBefore' = <<m_lastAlternative, m_lastActiveProfile>>
            /\ lastEmitted' = Recorded(lastEmitted, events)
            /\ resolvedHistory' = LastTwo(Append(resolvedHistory, currentProfile))
            /\ UNCHANGED <<timerActive, clockVars, storeVars, subject, result>>

\* BandwidthScheduler::onTimeout, with the profile branch skipped on a tick that
\* announced the legacy value
onTimeoutElseIf ==
    /\ timerActive
    /\ \E alternative \in isTimeForAlternative(schedulerStartTime, schedulerEndTime,
                                               now, schedulerDays, day) :
        LET currentProfile ==
                getCurrentSpeedProfile(schedules, now, day, defaultSpeedProfile)
            alternativeChanged == alternative # m_lastAlternative
            profileChanged ==
                ~alternativeChanged /\ currentProfile # m_lastActiveProfile
            events ==
                (IF alternativeChanged
                 THEN <<BandwidthLimitRequested(alternative)>> ELSE <<>>)
                \o (IF profileChanged
                    THEN <<SpeedProfileRequested(currentProfile)>> ELSE <<>>)
        IN  /\ m_lastAlternative' =
                  IF alternativeChanged THEN alternative ELSE m_lastAlternative
            /\ m_lastActiveProfile' =
                  IF profileChanged THEN currentProfile ELSE m_lastActiveProfile
            /\ emitted' = events
            /\ lastOp' = "onTimeout"
            /\ cellsBefore' = <<m_lastAlternative, m_lastActiveProfile>>
            /\ lastEmitted' = Recorded(lastEmitted, events)
            /\ resolvedHistory' = LastTwo(Append(resolvedHistory, currentProfile))
            /\ UNCHANGED <<timerActive, clockVars, storeVars, subject, result>>

\* BandwidthScheduler::onTimeout, resolving once and keeping the name for the
\* ticks that follow
onTimeoutCachedProfile ==
    /\ timerActive
    /\ \E alternative \in isTimeForAlternative(schedulerStartTime, schedulerEndTime,
                                               now, schedulerDays, day) :
        LET currentProfile ==
                IF resolvedHistory # <<>> THEN resolvedHistory[Len(resolvedHistory)]
                ELSE getCurrentSpeedProfile(schedules, now, day, defaultSpeedProfile)
            alternativeChanged == alternative # m_lastAlternative
            profileChanged == currentProfile # m_lastActiveProfile
            events ==
                (IF alternativeChanged
                 THEN <<BandwidthLimitRequested(alternative)>> ELSE <<>>)
                \o (IF profileChanged
                    THEN <<SpeedProfileRequested(currentProfile)>> ELSE <<>>)
        IN  /\ m_lastAlternative' =
                  IF alternativeChanged THEN alternative ELSE m_lastAlternative
            /\ m_lastActiveProfile' =
                  IF profileChanged THEN currentProfile ELSE m_lastActiveProfile
            /\ emitted' = events
            /\ lastOp' = "onTimeout"
            /\ cellsBefore' = <<m_lastAlternative, m_lastActiveProfile>>
            /\ lastEmitted' = Recorded(lastEmitted, events)
            /\ resolvedHistory' = LastTwo(Append(resolvedHistory, currentProfile))
            /\ UNCHANGED <<timerActive, clockVars, storeVars, subject, result>>

\* BandwidthScheduler::onTimeout, announcing a changed profile without storing it
onTimeoutStaleCell ==
    /\ timerActive
    /\ \E alternative \in isTimeForAlternative(schedulerStartTime, schedulerEndTime,
                                               now, schedulerDays, day) :
        LET currentProfile ==
                getCurrentSpeedProfile(schedules, now, day, defaultSpeedProfile)
            alternativeChanged == alternative # m_lastAlternative
            profileChanged == currentProfile # m_lastActiveProfile
            events ==
                (IF alternativeChanged
                 THEN <<BandwidthLimitRequested(alternative)>> ELSE <<>>)
                \o (IF profileChanged
                    THEN <<SpeedProfileRequested(currentProfile)>> ELSE <<>>)
        IN  /\ m_lastAlternative' =
                  IF alternativeChanged THEN alternative ELSE m_lastAlternative
            /\ m_lastActiveProfile' = m_lastActiveProfile
            /\ emitted' = events
            /\ lastOp' = "onTimeout"
            /\ cellsBefore' = <<m_lastAlternative, m_lastActiveProfile>>
            /\ lastEmitted' = Recorded(lastEmitted, events)
            /\ resolvedHistory' = LastTwo(Append(resolvedHistory, currentProfile))
            /\ UNCHANGED <<timerActive, clockVars, storeVars, subject, result>>

\* BandwidthScheduler::onTimeout, announcing the legacy value on every tick
onTimeoutAnnounceAlways ==
    /\ timerActive
    /\ \E alternative \in isTimeForAlternative(schedulerStartTime, schedulerEndTime,
                                               now, schedulerDays, day) :
        LET currentProfile ==
                getCurrentSpeedProfile(schedules, now, day, defaultSpeedProfile)
            alternativeChanged == TRUE
            profileChanged == currentProfile # m_lastActiveProfile
            events ==
                (IF alternativeChanged
                 THEN <<BandwidthLimitRequested(alternative)>> ELSE <<>>)
                \o (IF profileChanged
                    THEN <<SpeedProfileRequested(currentProfile)>> ELSE <<>>)
        IN  /\ m_lastAlternative' =
                  IF alternativeChanged THEN alternative ELSE m_lastAlternative
            /\ m_lastActiveProfile' =
                  IF profileChanged THEN currentProfile ELSE m_lastActiveProfile
            /\ emitted' = events
            /\ lastOp' = "onTimeout"
            /\ cellsBefore' = <<m_lastAlternative, m_lastActiveProfile>>
            /\ lastEmitted' = Recorded(lastEmitted, events)
            /\ resolvedHistory' = LastTwo(Append(resolvedHistory, currentProfile))
            /\ UNCHANGED <<timerActive, clockVars, storeVars, subject, result>>

\* BandwidthScheduler::onTimeout, with the profile block ahead of the legacy block
onTimeoutProfileFirst ==
    /\ timerActive
    /\ \E alternative \in isTimeForAlternative(schedulerStartTime, schedulerEndTime,
                                               now, schedulerDays, day) :
        LET currentProfile ==
                getCurrentSpeedProfile(schedules, now, day, defaultSpeedProfile)
            alternativeChanged == alternative # m_lastAlternative
            profileChanged == currentProfile # m_lastActiveProfile
            events ==
                (IF profileChanged
                 THEN <<SpeedProfileRequested(currentProfile)>> ELSE <<>>)
                \o (IF alternativeChanged
                    THEN <<BandwidthLimitRequested(alternative)>> ELSE <<>>)
        IN  /\ m_lastAlternative' =
                  IF alternativeChanged THEN alternative ELSE m_lastAlternative
            /\ m_lastActiveProfile' =
                  IF profileChanged THEN currentProfile ELSE m_lastActiveProfile
            /\ emitted' = events
            /\ lastOp' = "onTimeout"
            /\ cellsBefore' = <<m_lastAlternative, m_lastActiveProfile>>
            /\ lastEmitted' = Recorded(lastEmitted, events)
            /\ resolvedHistory' = LastTwo(Append(resolvedHistory, currentProfile))
            /\ UNCHANGED <<timerActive, clockVars, storeVars, subject, result>>

\* BandwidthScheduler::onTimeout: the timer's tick.  The two clock reads of one
\* tick are the same instant of the coarse clock.
onTimeout ==
    /\ timerActive
    /\ \E alternative \in isTimeForAlternative(schedulerStartTime, schedulerEndTime,
                                               now, schedulerDays, day) :
        LET currentProfile ==
                getCurrentSpeedProfile(schedules, now, day, defaultSpeedProfile)
            alternativeChanged == alternative # m_lastAlternative
            profileChanged == currentProfile # m_lastActiveProfile
            events ==
                (IF alternativeChanged
                 THEN <<BandwidthLimitRequested(alternative)>> ELSE <<>>)
                \o (IF profileChanged
                    THEN <<SpeedProfileRequested(currentProfile)>> ELSE <<>>)
        IN  /\ m_lastAlternative' =
                  IF alternativeChanged THEN alternative ELSE m_lastAlternative
            /\ m_lastActiveProfile' =
                  IF profileChanged THEN currentProfile ELSE m_lastActiveProfile
            /\ emitted' = events
            /\ lastOp' = "onTimeout"
            /\ cellsBefore' = <<m_lastAlternative, m_lastActiveProfile>>
            /\ lastEmitted' = Recorded(lastEmitted, events)
            /\ resolvedHistory' = LastTwo(Append(resolvedHistory, currentProfile))
            /\ UNCHANGED <<timerActive, clockVars, storeVars, subject, result>>

\* What a step of the environment leaves of the scheduler: nothing is emitted
\* and no cell is written.
EnvironmentStep ==
    /\ lastOp' = "environment"
    /\ emitted' = <<>>
    /\ cellsBefore' = <<m_lastAlternative, m_lastActiveProfile>>
    /\ UNCHANGED <<timerActive, m_lastAlternative, m_lastActiveProfile,
                   lastEmitted, resolvedHistory, subject, result>>

\* The wall clock moves: time passes, or the user or a time-sync utility sets it.
clockChanged ==
    /\ \E t \in Times, d \in LoopDaysOfWeek :
          /\ <<t, d>> # <<now, day>>
          /\ now' = t
          /\ day' = d
    /\ EnvironmentStep
    /\ UNCHANGED storeVars

\* The user commits a new legacy window.
setSchedulerWindow ==
    /\ \E s \in LegacyTimes, e \in LegacyTimes, d \in LegacyDays :
          /\ <<s, e, d>> # <<schedulerStartTime, schedulerEndTime, schedulerDays>>
          /\ schedulerStartTime' = s
          /\ schedulerEndTime' = e
          /\ schedulerDays' = d
    /\ EnvironmentStep
    /\ UNCHANGED <<clockVars, schedules, defaultSpeedProfile>>

\* The user commits a new default profile name.
setDefaultSpeedProfile ==
    /\ \E p \in LoopDefaults :
          /\ p # defaultSpeedProfile
          /\ defaultSpeedProfile' = p
    /\ EnvironmentStep
    /\ UNCHANGED <<clockVars, schedules, schedulerStartTime, schedulerEndTime,
                   schedulerDays>>

\* The user commits a list of schedule entries with one more entry.
addScheduleEntry ==
    /\ Len(schedules) < MaxEntries
    /\ \E entry \in LoopEntries : schedules' = Append(schedules, entry)
    /\ EnvironmentStep
    /\ UNCHANGED <<clockVars, defaultSpeedProfile, schedulerStartTime,
                   schedulerEndTime, schedulerDays>>

\* The user commits a list of schedule entries with one entry removed.
removeScheduleEntry ==
    /\ \E i \in 1..Len(schedules) :
          schedules' = SubSeq(schedules, 1, i - 1) \o SubSeq(schedules, i + 1, Len(schedules))
    /\ EnvironmentStep
    /\ UNCHANGED <<clockVars, defaultSpeedProfile, schedulerStartTime,
                   schedulerEndTime, schedulerDays>>

Next ==
    \/ start
    \/ onTimeout
    \/ clockChanged
    \/ setSchedulerWindow
    \/ setDefaultSpeedProfile
    \/ addScheduleEntry
    \/ removeScheduleEntry

Spec == Init /\ [][Next]_vars

\* ------------------------------ specification: the loop, started once

\* The call of start() by the owner of a scheduler that has not been started.
startOnce ==
    /\ ~timerActive
    /\ start

NextOnce ==
    \/ startOnce
    \/ onTimeout
    \/ clockChanged
    \/ setSchedulerWindow
    \/ setDefaultSpeedProfile
    \/ addScheduleEntry
    \/ removeScheduleEntry

SpecOnce == Init /\ [][NextOnce]_vars

\* ------------------------------------------------ the resolver's contract

\* The ISO days a day selector stands for (spec section 4.1).
DayTable(selector) ==
    CASE selector = EveryDay -> {1, 2, 3, 4, 5, 6, 7}
      [] selector = Weekday -> {1, 2, 3, 4, 5}
      [] selector = Weekend -> {6, 7}
      [] selector = Monday -> {1}
      [] selector = Tuesday -> {2}
      [] selector = Wednesday -> {3}
      [] selector = Thursday -> {4}
      [] selector = Friday -> {5}
      [] selector = Saturday -> {6}
      [] selector = Sunday -> {7}
      [] OTHER -> {}

\* The window of an entry as the spec states it (section 4.2, step 3).
InWindow(entry, t) ==
    IF entry.startTime <= entry.endTime
    THEN entry.startTime <= t /\ t <= entry.endTime
    ELSE t >= entry.startTime \/ t <= entry.endTime

\* Indices of the entries of a list that pass the day test and the time test.
Matching(entries, t, d) ==
    {i \in 1..Len(entries) : d \in DayTable(entries[i].days) /\ InWindow(entries[i], t)}

Least(S) == CHOOSE i \in S : \A j \in S : i <= j

\* The permutations of 1..n, for every length a list can have.
IndexPermutations ==
    [n \in 0..MaxEntries |->
        {f \in [1..n -> 1..n] : \A i, j \in 1..n : f[i] = f[j] => i = j}]

\* Every reordering of a list.
Permutations(entries) ==
    {[i \in 1..Len(entries) |-> entries[f[i]]] : f \in IndexPermutations[Len(entries)]}

Resolved == lastOp = "getCurrentSpeedProfile"

\* C1 as stated: for a list holding one entry with startTime <= endTime the
\* resolver returns the entry's profileName if and only if the day selector
\* matches today and startTime <= now <= endTime.
C1_AsStated ==
    (Resolved /\ Len(schedules) = 1 /\ schedules[1].startTime <= schedules[1].endTime)
        => ((result[1] = schedules[1].profileName)
              <=> (/\ day \in DayTable(schedules[1].days)
                   /\ schedules[1].startTime <= now
                   /\ now <= schedules[1].endTime))

\* C1 amended: for a list holding one entry with startTime <= endTime whose
\* profileName differs from the default profile name, the resolver returns the
\* entry's profileName if and only if the day selector matches today and
\* startTime <= now <= endTime, both bounds included.
C1_NormalRange ==
    (/\ Resolved
     /\ Len(schedules) = 1
     /\ schedules[1].startTime <= schedules[1].endTime
     /\ schedules[1].profileName # defaultSpeedProfile)
        => ((result[1] = schedules[1].profileName)
              <=> (/\ day \in DayTable(schedules[1].days)
                   /\ schedules[1].startTime <= now
                   /\ now <= schedules[1].endTime))

\* C1 witness: the entry is selected at the instant now == endTime of a normal
\* range, on a day its selector matches.
C1_Witness ==
    /\ Resolved
    /\ Len(schedules) = 1
    /\ schedules[1].startTime < schedules[1].endTime
    /\ now = schedules[1].endTime
    /\ day \in DayTable(schedules[1].days)
    /\ schedules[1].profileName # defaultSpeedProfile
    /\ result = <<schedules[1].profileName>>

\* C2 as stated: for a list holding one entry with startTime > endTime whose
\* day selector matches today, the resolver returns the entry's profileName if
\* and only if now >= startTime or now <= endTime.
C2_AsStated ==
    (/\ Resolved
     /\ Len(schedules) = 1
     /\ schedules[1].startTime > schedules[1].endTime
     /\ day \in DayTable(schedules[1].days))
        => ((result[1] = schedules[1].profileName)
              <=> (now >= schedules[1].startTime \/ now <= schedules[1].endTime))

\* C2 amended: for a list holding one entry with startTime > endTime whose day
\* selector matches today and whose profileName differs from the default
\* profile name, the resolver returns the entry's profileName if and only if
\* now >= startTime or now <= endTime.
C2_WrapAround ==
    (/\ Resolved
     /\ Len(schedules) = 1
     /\ schedules[1].startTime > schedules[1].endTime
     /\ day \in DayTable(schedules[1].days)
     /\ schedules[1].profileName # defaultSpeedProfile)
        => ((result[1] = schedules[1].profileName)
              <=> (now >= schedules[1].startTime \/ now <= schedules[1].endTime))

\* C2 witness: a window crossing midnight is not selected at an instant
\* between its end and its start, on a day its selector matches.
C2_Witness ==
    /\ Resolved
    /\ Len(schedules) = 1
    /\ schedules[1].startTime > schedules[1].endTime
    /\ now > schedules[1].endTime
    /\ now < schedules[1].startTime
    /\ day \in DayTable(schedules[1].days)
    /\ schedules[1].profileName # defaultSpeedProfile
    /\ result = <<defaultSpeedProfile>>

\* C3: when some entry passes the day test and the time test, the resolver
\* returns the profileName of the passing entry with the smallest index, and
\* it does so for every reordering of the list.
C3_FirstMatchWins ==
    Resolved =>
        /\ Matching(schedules, now, day) # {}
              => result[1] = schedules[Least(Matching(schedules, now, day))].profileName
        /\ \A q \in Permutations(schedules) :
              LET passing == Matching(q, now, day)
              IN  passing # {}
                     => getCurrentSpeedProfile(q, now, day, defaultSpeedProfile)
                           = q[Least(passing)].profileName

\* C3 witness: two entries bound to different profiles both pass, and the
\* first one's profile is returned.
C3_Witness ==
    /\ Resolved
    /\ Len(schedules) = 2
    /\ Matching(schedules, now, day) = {1, 2}
    /\ schedules[1].profileName # schedules[2].profileName
    /\ result = <<schedules[1].profileName>>

\* C4: when no entry passes both tests (the list may be empty) the resolver
\* returns the default profile name, whatever it is.
C4_DefaultOnNoMatch ==
    (Resolved /\ Matching(schedules, now, day) = {})
        => result[1] = defaultSpeedProfile

\* C4 witness: a non-empty list none of whose entries passes, resolved with an
\* empty default name: the empty name is returned.
C4_Witness ==
    /\ Resolved
    /\ Len(schedules) = MaxEntries
    /\ Matching(schedules, now, day) = {}
    /\ defaultSpeedProfile = ""
    /\ result = <<"">>

\* C5: isDayMatch(selector, day) is true exactly for the days the selector
\* stands for, and false for a selector outside the ten recognized values.
C5_DayTable ==
    lastOp = "isDayMatch"
        => /\ result[1] = (day \in DayTable(schedules[1].days))
           /\ schedules[1].days \notin RecognizedDays => result[1] = FALSE

\* C5 witness: the single-day branch matches Sunday on ISO day 7.
C5_Witness ==
    /\ lastOp = "isDayMatch"
    /\ schedules[1].days = Sunday
    /\ day = 7
    /\ result = <<TRUE>>

\* ------------------------------------------------- the loop's contract

\* The values the handlers evaluate against the current clock and store.
LegacyValues ==
    isTimeForAlternative(schedulerStartTime, schedulerEndTime, now, schedulerDays, day)

ResolvedProfile == getCurrentSpeedProfile(schedules, now, day, defaultSpeedProfile)

\* C6 as stated: start() emits speedProfileRequested carrying the initially
\* resolved profile name, whatever that name is.
C6_AsStated ==
    lastOp = "start"
        => EmissionsOf(emitted, "speedProfileRequested")
              = <<SpeedProfileRequested(ResolvedProfile)>>

\* C7: start() emits bandwidthLimitRequested exactly once, carrying the value
\* isTimeForAlternative computes at that moment, whatever m_lastAlternative
\* held, stores that value and arms the timer; nothing has been emitted as
\* long as the timer has not been armed.
C7_StartAnnouncesLegacy ==
    /\ lastOp = "start"
          => /\ \E alternative \in LegacyValues :
                   /\ EmissionsOf(emitted, "bandwidthLimitRequested")
                         = <<BandwidthLimitRequested(alternative)>>
                   /\ m_lastAlternative = alternative
             /\ timerActive
    /\ ~timerActive
          => /\ emitted = <<>>
             /\ lastEmitted = [alternative |-> <<>>, profile |-> <<>>]

\* C7 witness: start() found in m_lastAlternative the very value it computes,
\* and announced it all the same.
C7_Witness ==
    /\ lastOp = "start"
    /\ cellsBefore[1] = m_lastAlternative
    /\ emitted = <<BandwidthLimitRequested(m_lastAlternative)>>
    /\ timerActive

C9_AsStated ==
    lastOp = "onTimeout"
        => Len(EmissionsOf(emitted, "speedProfileRequested"))
              = IF Len(resolvedHistory) = 1 \/ resolvedHistory[1] # resolvedHistory[2]
                THEN 1 ELSE 0

\* C10: a tick on which only the legacy value changed writes m_lastAlternative
\* and emits bandwidthLimitRequested alone; one on which only the resolved
\* profile changed writes m_lastActiveProfile and emits speedProfileRequested
\* alone; one on which neither changed writes no cell and emits nothing.
C10_IndependentCells ==
    lastOp = "onTimeout"
        => \E alternative \in LegacyValues :
              LET alternativeChanged == alternative # cellsBefore[1]
                  profileChanged == ResolvedProfile # cellsBefore[2]
              IN  /\ (alternativeChanged /\ ~profileChanged)
                        => /\ m_lastAlternative = alternative
                           /\ emitted = <<BandwidthLimitRequested(alternative)>>
                           /\ m_lastActiveProfile = cellsBefore[2]
                  /\ (~alternativeChanged /\ profileChanged)
                        => /\ m_lastActiveProfile = ResolvedProfile
                           /\ emitted = <<SpeedProfileRequested(ResolvedProfile)>>
                           /\ m_lastAlternative = cellsBefore[1]
                  /\ (~alternativeChanged /\ ~profileChanged)
                        => /\ m_lastAlternative = cellsBefore[1]
                           /\ m_lastActiveProfile = cellsBefore[2]
                           /\ emitted = <<>>

\* C10 witness: a tick on which only the legacy value changed.
C10_Witness ==
    /\ lastOp = "onTimeout"
    /\ cellsBefore[1] # m_lastAlternative
    /\ cellsBefore[2] = m_lastActiveProfile
    /\ emitted = <<BandwidthLimitRequested(m_lastAlternative)>>

\* ------------------------- specification: isTimeForAlternative applied

\* Any legacy window over the clock, any selector a Scheduler::Days can hold,
\* any instant of any day.
InitLegacy ==
    /\ now \in Times
    /\ day \in DaysOfWeek
    /\ schedules = <<>>
    /\ defaultSpeedProfile = "Normal"
    /\ schedulerStartTime \in Times
    /\ schedulerEndTime \in Times
    /\ schedulerDays \in DaySelectors
    /\ SchedulerConstructed
    /\ lastOp = "none"
    /\ subject = <<>>
    /\ result = <<>>

\* A call of isTimeForAlternative against the current clock and store: it
\* returns a value, or the process aborts in Q_UNREACHABLE().
applyIsTimeForAlternative ==
    /\ lastOp = "none"
    /\ lastOp' = "isTimeForAlternative"
    /\ \/ \E alternative \in isTimeForAlternative(schedulerStartTime, schedulerEndTime,
                                                  now, schedulerDays, day) :
             result' = <<[returned |-> TRUE, value |-> alternative]>>
       \/ /\ isTimeForAlternativeUnreachable(schedulerStartTime, schedulerEndTime,
                                             now, schedulerDays)
          /\ result' = <<[returned |-> FALSE, value |-> FALSE]>>
    /\ UNCHANGED <<clockVars, storeVars, schedulerVars, subject>>

NextLegacy == applyIsTimeForAlternative

SpecLegacy == InitLegacy /\ [][NextLegacy]_vars

\* ------------------------------------------- the legacy evaluator's contract

LegacyEvaluated == lastOp = "isTimeForAlternative"

\* now lies in the closed interval between the smaller and the larger of the
\* two times of the legacy window.
InNormalizedWindow ==
    LET lower == IF schedulerStartTime <= schedulerEndTime
                 THEN schedulerStartTime ELSE schedulerEndTime
        upper == IF schedulerStartTime <= schedulerEndTime
                 THEN schedulerEndTime ELSE schedulerStartTime
    IN  lower <= now /\ now <= upper

\* C11: for a recognized selector isTimeForAlternative returns
\* (start > end) XOR (min(start, end) <= now <= max(start, end) and the selector
\* matches today).
C11_LegacyXor ==
    (LegacyEvaluated /\ schedulerDays \in RecognizedDays)
        => result = <<[returned |-> TRUE,
                       value |-> (schedulerStartTime > schedulerEndTime)
                                    # (InNormalizedWindow /\ day \in DayTable(schedulerDays))]>>

\* C11 witness: a swapped window, now inside it on the single day the selector
\* names: the two flips cancel and false is returned.
C11_Witness ==
    /\ LegacyEvaluated
    /\ schedulerStartTime > schedulerEndTime
    /\ InNormalizedWindow
    /\ schedulerDays = Saturday
    /\ day = 6
    /\ result = <<[returned |-> TRUE, value |-> FALSE]>>

\* C17 as stated: with an unrecognized selector the legacy evaluator returns
\* normally and treats the day as not matching, so it returns start > end, also
\* when now lies inside the window.
C17_AsStated ==
    (LegacyEvaluated /\ schedulerDays \notin RecognizedDays)
        => result = <<[returned |-> TRUE,
                       value |-> schedulerStartTime > schedulerEndTime]>>

\* C18 as stated: for a window with start > end (and a recognized selector) the
\* legacy signal is true exactly when now lies outside [end, start].
C18_AsStated ==
    (/\ LegacyEvaluated
     /\ schedulerStartTime > schedulerEndTime
     /\ schedulerDays \in RecognizedDays)
        => result = <<[returned |-> TRUE, value |-> ~InNormalizedWindow]>>

\* C18 amended: for a window with start > end and a recognized selector that
\* matches today, the legacy signal is true exactly when now lies outside the
\* closed interval [end, start] and false when now lies inside it.
C18_SwappedWindow ==
    (/\ LegacyEvaluated
     /\ schedulerStartTime > schedulerEndTime
     /\ schedulerDays \in RecognizedDays
     /\ day \in DayTable(schedulerDays))
        => result = <<[returned |-> TRUE, value |-> ~InNormalizedWindow]>>

\* C18 witness: on a matching day, now at the upper bound of [end, start]: the
\* signal is inactive.
C18_Witness ==
    /\ LegacyEvaluated
    /\ schedulerStartTime > schedulerEndTime
    /\ now = schedulerStartTime
    /\ schedulerDays = Weekend
    /\ day = 7
    /\ result = <<[returned |-> TRUE, value |-> FALSE]>>

\* ------------------ specification: the resolver on lists it must survive

\* Entries a store can hand to the resolver: a time that is not valid on either
\* side or on both, a selector no case of isDayMatch names, a profileName no
\* stored profile carries.
TotalEntries ==
    {ScheduleEntry(w[1], w[2], d, p) :
        w \in {<<InvalidTime, 1>>, <<1, InvalidTime>>,
               <<InvalidTime, InvalidTime>>, <<0, 1>>},
        d \in {EveryDay, 10},
        p \in {"Work", "Ghost"}}

InitTotal ==
    /\ now \in Times
    /\ day \in ResolverDaysOfWeek
    /\ schedules \in SeqUpTo(TotalEntries, MaxEntries)
    /\ defaultSpeedProfile \in {"", "Normal"}
    /\ LegacyWindowAtRest
    /\ SchedulerConstructed
    /\ lastOp = "none"
    /\ subject = <<>>
    /\ result = <<>>

NextTotal == applyGetCurrentSpeedProfile

SpecTotal == InitTotal /\ [][NextTotal]_vars

\* The names of the profiles the store holds; the resolver never reads them.
StoredProfiles == {"Work", "Normal"}

HasInvalidTime(entry) == ~QTimeIsValid(entry.startTime) \/ ~QTimeIsValid(entry.endTime)

\* C12: the resolver returns a name for every list (empty, entries whose
\* selector never matches, names no stored profile carries): the default when
\* no entry matches, else the first matching entry's profileName as it stands,
\* whether or not a profile of that name is stored.
C12_TotalAsIs ==
    Resolved =>
        LET passing == Matching(schedules, now, day)
        IN  /\ Len(result) = 1
            /\ result[1] \in {schedules[i].profileName : i \in 1..Len(schedules)}
                                \cup {defaultSpeedProfile}
            /\ passing = {} => result[1] = defaultSpeedProfile
            /\ passing # {} => result[1] = schedules[Least(passing)].profileName

\* C12 witness: behind an entry whose selector never matches, an entry naming a
\* profile that is not stored matches, and that name is returned.
C12_Witness ==
    /\ Resolved
    /\ Len(schedules) = 2
    /\ schedules[1].days \notin RecognizedDays
    /\ schedules[2].profileName \notin StoredProfiles
    /\ result = <<schedules[2].profileName>>

\* C16 as stated: an entry whose startTime or endTime is not valid never passes
\* the resolver's time test, so a list holding only such entries resolves to
\* the default.
C16_AsStated ==
    (Resolved /\ \A i \in 1..Len(schedules) : HasInvalidTime(schedules[i]))
        => result = <<defaultSpeedProfile>>

\* --------------------------- specification: the scenario of two entries

\* Times of day in minutes since midnight, on the hour.
ScenarioTimes == {60 * h : h \in 0..23}

\* Work 08:00-18:00 on weekdays, then Night 18:00-08:00 every day.
ScenarioEntries ==
    <<ScheduleEntry(8 * 60, 18 * 60, Weekday, "Work"),
      ScheduleEntry(18 * 60, 8 * 60, EveryDay, "Night")>>

InitScenario ==
    /\ now \in ScenarioTimes
    /\ day \in DaysOfWeek
    /\ schedules = ScenarioEntries
    /\ defaultSpeedProfile = "Normal"
    /\ LegacyWindowAtRest
    /\ SchedulerConstructed
    /\ lastOp = "none"
    /\ subject = <<>>
    /\ result = <<>>

NextScenario == applyGetCurrentSpeedProfile

SpecScenario == InitScenario /\ [][NextScenario]_vars

\* C13: with entries [Work 08:00-18:00 Weekday, Night 18:00-08:00 EveryDay] and
\* default "Normal", the resolver returns "Work" on Tuesday 09:00, "Night" on
\* Tuesday 20:00 and "Normal" on Saturday 10:00.
C13_Scenario ==
    Resolved =>
        /\ (day = 2 /\ now = 9 * 60) => result = <<"Work">>
        /\ (day = 2 /\ now = 20 * 60) => result = <<"Night">>
        /\ (day = 6 /\ now = 10 * 60) => result = <<"Normal">>

\* C13 witness: Saturday 10:00 has been resolved, to the default.
C13_Witness ==
    /\ Resolved
    /\ schedules = ScenarioEntries
    /\ day = 6
    /\ now = 10 * 60
    /\ result = <<"Normal">>

\* ------------------------------------- specification: isValid applied

SpeedProfileSubjects ==
    {SpeedProfile(n, dl, ul) : n \in {"", "Work"}, dl \in -2..1, ul \in -2..1}

ScheduleEntrySubjects ==
    {ScheduleEntry(s, e, d, p) : s \in Times \cup {InvalidTime},
                                 e \in Times \cup {InvalidTime},
                                 d \in DaySelectors, p \in {"", "Work"}}

InitValid ==
    /\ now = 0
    /\ day = 1
    /\ schedules = <<>>
    /\ defaultSpeedProfile = "Normal"
    /\ LegacyWindowAtRest
    /\ SchedulerConstructed
    /\ lastOp = "none"
    /\ subject \in {<<"SpeedProfile", x>> : x \in SpeedProfileSubjects}
                      \cup {<<"ScheduleEntry", x>> : x \in ScheduleEntrySubjects}
    /\ result = <<>>

\* A call of SpeedProfile::isValid on the subject
applySpeedProfileIsValid ==
    /\ lastOp = "none"
    /\ subject[1] = "SpeedProfile"
    /\ lastOp' = "SpeedProfile::isValid"
    /\ result' = <<SpeedProfileIsValid(subject[2])>>
    /\ UNCHANGED <<clockVars, storeVars, schedulerVars, subject>>

\* A call of ScheduleEntry::isValid on the subject
applyScheduleEntryIsValid ==
    /\ lastOp = "none"
    /\ subject[1] = "ScheduleEntry"
    /\ lastOp' = "ScheduleEntry::isValid"
    /\ result' = <<ScheduleEntryIsValid(subject[2])>>
    /\ UNCHANGED <<clockVars, storeVars, schedulerVars, subject>>

NextValid == applySpeedProfileIsValid \/ applyScheduleEntryIsValid

SpecValid == InitValid /\ [][NextValid]_vars

\* C14: a SpeedProfile is valid if and only if its name is non-empty, its
\* downloadLimit is at least -1 and its uploadLimit is at least -1.
C14_SpeedProfileValid ==
    (lastOp = "SpeedProfile::isValid")
        => (result[1] <=> (/\ subject[2].name # ""
                           /\ subject[2].downloadLimit >= -1
                           /\ subject[2].uploadLimit >= -1))

\* C14 witness: a named profile with one limit at -1 (unlimited) and the other
\* positive is found valid.
C14_Witness ==
    /\ lastOp = "SpeedProfile::isValid"
    /\ subject[2].name # ""
    /\ subject[2].downloadLimit = -1
    /\ subject[2].uploadLimit > 0
    /\ result = <<TRUE>>

\* C15: a ScheduleEntry is valid if and only if its startTime is a valid time,
\* its endTime is a valid time and its profileName is non-empty, whatever the
\* order of the two times and whatever the day selector.
C15_ScheduleEntryValid ==
    (lastOp = "ScheduleEntry::isValid")
        => (result[1] <=> (/\ subject[2].startTime \in Times
                           /\ subject[2].endTime \in Times
                           /\ subject[2].profileName # ""))

\* C15 witness: an entry with startTime after endTime and a selector no day
\* matches is found valid.
C15_Witness ==
    /\ lastOp = "ScheduleEntry::isValid"
    /\ subject[2].startTime > subject[2].endTime
    /\ subject[2].endTime \in Times
    /\ subject[2].days \notin RecognizedDays
    /\ subject[2].profileName # ""
    /\ result = <<TRUE>>

\* ------------------------------------------- entries with startTime == endTime

\* A list of one entry whose two times are equal, resolved on a day its selector
\* matches; the entry's name differs from the default, so that the returned
\* name tells whether the entry was selected.
InstantEntryResolved ==
    /\ Resolved
    /\ Len(schedules) = 1
    /\ schedules[1].startTime = schedules[1].endTime
    /\ day \in DayTable(schedules[1].days)
    /\ schedules[1].profileName # defaultSpeedProfile

\* C19: an entry with startTime == endTime takes the normal-range branch: on a
\* matching day it is selected when now equals that instant and only then.
C19_ExactInstant ==
    InstantEntryResolved
        => ((result[1] = schedules[1].profileName) <=> (now = schedules[1].startTime))

\* C19 witness: such an entry is selected at its instant.
C19_Witness ==
    /\ InstantEntryResolved
    /\ now = schedules[1].startTime
    /\ result = <<schedules[1].profileName>>

\* C20 as stated: an entry with startTime == endTime covers the whole day: on a
\* matching day it is selected for every now.
C20_AsStated ==
    InstantEntryResolved => result = <<schedules[1].profileName>>

\* C20 amended: an entry with startTime == endTime does not cover the day: on a
\* matching day, at every now other than that instant, the resolver passes it
\* over (a list of that one entry resolves to the default).
C20_NotWholeDay ==
    (InstantEntryResolved /\ now # schedules[1].startTime)
        => result = <<defaultSpeedProfile>>

\* C20 witness: after the instant of such an entry, on a matching day, the
\* default is returned.
C20_Witness ==
    /\ InstantEntryResolved
    /\ now > schedules[1].startTime
    /\ result = <<defaultSpeedProfile>>

\* ------------------------------------------------ the loop's contract, continued

\* C21: a tick resolves against the store as it is at that tick, whatever the
\* store held at the tick before: the name the tick resolved is the one the
\* present entry list and default give, and speedProfileRequested is emitted
\* with that name at that tick exactly when it differs from the name last
\* announced (the cell the tick found).
C21_StoreRereadEachTick ==
    lastOp = "onTimeout"
        => /\ resolvedHistory[Len(resolvedHistory)] = ResolvedProfile
           /\ (ResolvedProfile # cellsBefore[2])
                 => /\ EmissionsOf(emitted, "speedProfileRequested")
                          = <<SpeedProfileRequested(ResolvedProfile)>>
                    /\ lastEmitted.profile = <<ResolvedProfile>>

\* C21 witness: with no entries, a tick resolved the empty default; the default
\* was then set to "Normal", and the next tick resolved and announced "Normal".
C21_Witness ==
    /\ lastOp = "onTimeout"
    /\ schedules = <<>>
    /\ defaultSpeedProfile = "Normal"
    /\ resolvedHistory = <<"", "Normal">>
    /\ emitted = <<SpeedProfileRequested("Normal")>>

\* C24 as stated: only the tick handler writes m_lastAlternative or
\* m_lastActiveProfile: a step that changes either cell is a step of onTimeout.
C24_AsStated ==
    [][(<<m_lastAlternative, m_lastActiveProfile>>' # <<m_lastAlternative, m_lastActiveProfile>>)
          => lastOp' = "onTimeout"]_vars

\* C24 amended: m_lastActiveProfile is written by onTimeout alone, and
\* m_lastAlternative by onTimeout and by start() alone; no edit of the store
\* and no change of the clock writes either cell.
C24_CellWriters ==
    [][/\ (m_lastActiveProfile' # m_lastActiveProfile) => lastOp' = "onTimeout"
       /\ (m_lastAlternative' # m_lastAlternative) => lastOp' \in {"onTimeout", "start"}]_vars

\* C24 witness: start() has changed m_lastAlternative.
C24_Witness ==
    /\ lastOp = "start"
    /\ cellsBefore[1] # m_lastAlternative
    /\ cellsBefore[2] = m_lastActiveProfile

\* C25: once start() has run, m_lastAlternative is the value of the latest
\* bandwidthLimitRequested emission, and m_lastActiveProfile is the value of the
\* latest speedProfileRequested emission, or empty if there has been none.
C25_CellsAreLastEmitted ==
    timerActive
        => /\ lastEmitted.alternative = <<m_lastAlternative>>
           /\ lastEmitted.profile = <<>> => m_lastActiveProfile = ""
           /\ lastEmitted.profile # <<>> => lastEmitted.profile = <<m_lastActiveProfile>>

\* C25 witness: after a tick that emitted nothing, the cells hold what earlier
\* ticks announced.
C25_Witness ==
    /\ lastOp = "onTimeout"
    /\ emitted = <<>>
    /\ lastEmitted.profile = <<"Night">>
    /\ m_lastActiveProfile = "Night"
    /\ lastEmitted.alternative = <<m_lastAlternative>>

\* C26: when start() is called at most once, no emission carries the value of
\* the emission before it on the same signal.
C26_NoAdjacentDuplicates ==
    [][\A i \in 1..Len(emitted') :
          IF emitted'[i].signal = "bandwidthLimitRequested"
          THEN lastEmitted.alternative # <<emitted'[i].alternative>>
          ELSE lastEmitted.profile # <<emitted'[i].profile>>]_vars

\* C26 witness: a tick announced a legacy value, after the one start() announced.
C26_Witness ==
    /\ lastOp = "onTimeout"
    /\ EmissionsOf(emitted, "bandwidthLimitRequested")
          = <<BandwidthLimitRequested(m_lastAlternative)>>
    /\ cellsBefore[1] = ~m_lastAlternative

\* C27: a tick on which both values changed emits bandwidthLimitRequested
\* first and speedProfileRequested second, never the other way round.
C27_LegacyBeforeProfile ==
    (lastOp = "onTimeout" /\ Len(emitted) = 2)
        => /\ emitted[1].signal = "bandwidthLimitRequested"
           /\ emitted[2].signal = "speedProfileRequested"
           /\ emitted[1].alternative = m_lastAlternative

\* C27 witness: a tick that emitted both signals.
C27_Witness ==
    /\ lastOp = "onTimeout"
    /\ emitted = <<BandwidthLimitRequested(m_lastAlternative),
                   SpeedProfileRequested(m_lastActiveProfile)>>

\* ----------------- specification: both evaluators on the same window

\* The legacy window and a list of one entry carrying the same two times and
\* the same selector, with a default that differs from the entry's name.
InitAgree ==
    /\ now \in Times
    /\ day \in DaysOfWeek
    /\ schedulerStartTime \in Times
    /\ schedulerEndTime \in Times
    /\ schedulerDays \in DaySelectors
    /\ schedules = <<ScheduleEntry(schedulerStartTime, schedulerEndTime,
                                   schedulerDays, "Work")>>
    /\ defaultSpeedProfile \in {"", "Normal"}
    /\ SchedulerConstructed
    /\ lastOp = "none"
    /\ subject = <<>>
    /\ result = <<>>

\* The two evaluations of one tick, isTimeForAlternative and then
\* getCurrentSpeedProfile, against the same clock and store; the first may
\* abort in Q_UNREACHABLE().
applyEvaluators ==
    /\ lastOp = "none"
    /\ lastOp' = "evaluators"
    /\ \/ \E alternative \in isTimeForAlternative(schedulerStartTime, schedulerEndTime,
                                                  now, schedulerDays, day) :
             result' = <<[returned |-> TRUE, value |-> alternative,
                          profile |-> getCurrentSpeedProfile(schedules, now, day,
                                                             defaultSpeedProfile)]>>
       \/ /\ isTimeForAlternativeUnreachable(schedulerStartTime, schedulerEndTime,
                                             now, schedulerDays)
          /\ result' = <<[returned |-> FALSE, value |-> FALSE, profile |-> ""]>>
    /\ UNCHANGED <<clockVars, storeVars, schedulerVars, subject>>

NextAgree == applyEvaluators

SpecAgree == InitAgree /\ [][NextAgree]_vars

\* C28: for a window with start <= end and a recognized selector, the legacy
\* evaluator returns true at (now, day) if and only if the resolver, given the
\* one entry {start, end, days, P} and a default other than P, returns P at the
\* same (now, day).
C28_EvaluatorsAgree ==
    (/\ lastOp = "evaluators"
     /\ schedulerStartTime <= schedulerEndTime
     /\ schedulerDays \in RecognizedDays)
        => /\ result[1].returned
           /\ result[1].value <=> (result[1].profile = schedules[1].profileName)

\* C28 witness: on a Sunday inside a weekend window, the legacy evaluator
\* returned true and the resolver the entry's name.
C28_Witness ==
    /\ lastOp = "evaluators"
    /\ schedulerStartTime < schedulerEndTime
    /\ schedulerDays = Weekend
    /\ day = 7
    /\ result = <<[returned |-> TRUE, value |-> TRUE, profile |-> "Work"]>>

\* ------------------------------------------------------------ persistence

\* A text.  A text of the shape two digits, colon, two digits carries the two
\* numbers it spells; any other text is told apart by its chars alone.
PlainText(chars) == [chars |-> chars, hh |-> 0, mm |-> 0]
TimeText(hh, mm) == [chars |-> "HH:mm", hh |-> hh, mm |-> mm]

\* QJsonValue: undefined (the value of a key an object does not hold), a string
\* or a number.
JsonUndefined == [type |-> "undefined", text |-> PlainText(""), num |-> 0]
JsonString(text) == [type |-> "string", text |-> text, num |-> 0]
JsonNumber(num) == [type |-> "number", text |-> PlainText(""), num |-> num]

\* QJsonValue::toString(): the text of a string, else the empty text
JsonToString(value) == IF value.type = "string" THEN value.text ELSE PlainText("")

\* QJsonValue::toInt(defaultValue): the number of a number, else the default
JsonToInt(value, defaultValue) == IF value.type = "number" THEN value.num ELSE defaultValue

\* QTime::toString(u"HH:mm"_s) of a time in seconds since midnight: hours and
\* minutes, the seconds dropped; the empty text for a time that is not valid.
QTimeToString(t) ==
    IF QTimeIsValid(t) THEN TimeText(t \div 3600, (t % 3600) \div 60) ELSE PlainText("")

\* QTime::fromString(text, u"HH:mm"_s): the time at zero seconds the text
\* spells, or a time that is not valid.
QTimeFromString(text) ==
    IF text.chars = "HH:mm" /\ text.hh \in 0..23 /\ text.mm \in 0..59
    THEN text.hh * 3600 + text.mm * 60
    ELSE InvalidTime

\* SpeedProfile::toJsonObject
SpeedProfileToJsonObject(profile) ==
    [name |-> JsonString(PlainText(profile.name)),
     download |-> JsonNumber(profile.downloadLimit),
     upload |-> JsonNumber(profile.uploadLimit)]

\* SpeedProfile::fromJsonObject, with absent limits read as zero
SpeedProfileFromJsonObjectZeroDefault(obj) ==
    SpeedProfile(JsonToString(obj.name).chars,
                 JsonToInt(obj.download, 0),
                 JsonToInt(obj.upload, 0))

\* SpeedProfile::fromJsonObject
SpeedProfileFromJsonObject(obj) ==
    SpeedProfile(JsonToString(obj.name).chars,
                 JsonToInt(obj.download, -1),
                 JsonToInt(obj.upload, -1))

\* ScheduleEntry::toJsonObject, writing the start time under both keys
ScheduleEntryToJsonObjectStartTwice(entry) ==
    [start |-> JsonString(QTimeToString(entry.startTime)),
     end |-> JsonString(QTimeToString(entry.startTime)),
     days |-> JsonNumber(entry.days),
     profile |-> JsonString(PlainText(entry.profileName))]

\* ScheduleEntry::toJsonObject
ScheduleEntryToJsonObject(entry) ==
    [start |-> JsonString(QTimeToString(entry.startTime)),
     end |-> JsonString(QTimeToString(entry.endTime)),
     days |-> JsonNumber(entry.days),
     profile |-> JsonString(PlainText(entry.profileName))]

\* ScheduleEntry::fromJsonObject
ScheduleEntryFromJsonObject(obj) ==
    ScheduleEntry(QTimeFromString(JsonToString(obj.start)),
                  QTimeFromString(JsonToString(obj.end)),
                  JsonToInt(obj.days, 0),
                  JsonToString(obj.profile).chars)

\* ----------------------------- specification: records written and read

\* Times in seconds since midnight: on the minute and off it, the first and the
\* last minute of the day, and the time that is not valid.
JsonTimes == {InvalidTime, 0, 30, 60, 3660, 86340, 86399}

JsonProfiles ==
    {SpeedProfile(n, dl, ul) : n \in {"", "Work"},
                               dl \in {-2, -1, 0, 1024, 2147483647},
                               ul \in {-2, -1, 0, 1024, 2147483647}}

JsonEntries ==
    {ScheduleEntry(s, e, d, p) : s \in JsonTimes, e \in JsonTimes,
                                 d \in DaySelectors, p \in {"", "Work"}}

\* Values a persisted object may hold under a key that should hold a limit
JsonLimitValues ==
    {JsonUndefined, JsonNumber(-1), JsonNumber(5), JsonString(PlainText("junk"))}

\* Values a persisted object may hold under a key that should hold a time
JsonTimeValues ==
    {JsonUndefined, JsonString(TimeText(8, 30)), JsonString(TimeText(25, 0)),
     JsonString(PlainText("junk")), JsonNumber(5)}

JsonProfileObjects ==
    {[name |-> n, download |-> dl, upload |-> ul] :
        n \in {JsonUndefined, JsonString(PlainText("Work"))},
        dl \in JsonLimitValues, ul \in JsonLimitValues}

JsonEntryObjects ==
    {[start |-> s, end |-> e, days |-> d, profile |-> p] :
        s \in JsonTimeValues, e \in JsonTimeValues,
        d \in {JsonUndefined, JsonNumber(Tuesday)},
        p \in {JsonUndefined, JsonString(PlainText("Work"))}}

InitJson ==
    /\ now = 0
    /\ day = 1
    /\ schedules = <<>>
    /\ defaultSpeedProfile = "Normal"
    /\ LegacyWindowAtRest
    /\ SchedulerConstructed
    /\ lastOp = "none"
    /\ subject \in {<<"SpeedProfile", x>> : x \in JsonProfiles}
                      \cup {<<"ScheduleEntry", x>> : x \in JsonEntries}
                      \cup {<<"SpeedProfileJson", x>> : x \in JsonProfileObjects}
                      \cup {<<"ScheduleEntryJson", x>> : x \in JsonEntryObjects}
    /\ result = <<>>

\* A profile is written and read back.
applySpeedProfileRoundTrip ==
    /\ lastOp = "none"
    /\ subject[1] = "SpeedProfile"
    /\ lastOp' = "SpeedProfile::roundTrip"
    /\ result' = <<SpeedProfileFromJsonObject(SpeedProfileToJsonObject(subject[2]))>>
    /\ UNCHANGED <<clockVars, storeVars, schedulerVars, subject>>

\* An entry is written and read back.
applyScheduleEntryRoundTrip ==
    /\ lastOp = "none"
    /\ subject[1] = "ScheduleEntry"
    /\ lastOp' = "ScheduleEntry::roundTrip"
    /\ result' = <<ScheduleEntryFromJsonObject(ScheduleEntryToJsonObject(subject[2]))>>
    /\ UNCHANGED <<clockVars, storeVars, schedulerVars, subject>>

\* A persisted object is read as a profile.
applySpeedProfileFromJsonObject ==
    /\ lastOp = "none"
    /\ subject[1] = "SpeedProfileJson"
    /\ lastOp' = "SpeedProfile::fromJsonObject"
    /\ result' = <<SpeedProfileFromJsonObject(subject[2])>>
    /\ UNCHANGED <<clockVars, storeVars, schedulerVars, subject>>

\* A persisted object is read as an entry.
applyScheduleEntryFromJsonObject ==
    /\ lastOp = "none"
    /\ subject[1] = "ScheduleEntryJson"
    /\ lastOp' = "ScheduleEntry::fromJsonObject"
    /\ result' = <<ScheduleEntryFromJsonObject(subject[2])>>
    /\ UNCHANGED <<clockVars, storeVars, schedulerVars, subject>>

NextJson ==
    \/ applySpeedProfileRoundTrip
    \/ applyScheduleEntryRoundTrip
    \/ applySpeedProfileFromJsonObject
    \/ applyScheduleEntryFromJsonObject

SpecJson == InitJson /\ [][NextJson]_vars

\* A persisted value that does not spell a time of day: the key is missing, the
\* value is not a string, or the string is not an hour 00..23 and a minute 00..59.
NoTimeOfDay(value) ==
    \/ value.type # "string"
    \/ value.text.chars # "HH:mm"
    \/ value.text.hh > 23
    \/ value.text.mm > 59

\* C22: read from a persisted object, a profile gets -1 for a download or upload
\* key that is missing; an entry gets the time that is not valid for a start or
\* end key that is missing or unparsable, and such an entry fails isValid().
C22_ReadDefaults ==
    /\ lastOp = "SpeedProfile::fromJsonObject"
          => /\ subject[2].download = JsonUndefined => result[1].downloadLimit = -1
             /\ subject[2].upload = JsonUndefined => result[1].uploadLimit = -1
    /\ lastOp = "ScheduleEntry::fromJsonObject"
          => /\ NoTimeOfDay(subject[2].start) => result[1].startTime = InvalidTime
             /\ NoTimeOfDay(subject[2].end) => result[1].endTime = InvalidTime
             /\ (NoTimeOfDay(subject[2].start) \/ NoTimeOfDay(subject[2].end))
                   => ~ScheduleEntryIsValid(result[1])

\* C22 witness: an object with a profile name and a well-formed start but an
\* hour-25 end was read as an entry that is not valid.
C22_Witness ==
    /\ lastOp = "ScheduleEntry::fromJsonObject"
    /\ subject[2].start = JsonString(TimeText(8, 30))
    /\ subject[2].end = JsonString(TimeText(25, 0))
    /\ result[1].profileName = "Work"
    /\ result[1].endTime = InvalidTime
    /\ ~ScheduleEntryIsValid(result[1])

\* C29: a profile written with toJsonObject and read with fromJsonObject equals
\* the original, for every profile; so does an entry whose two times are valid
\* times at zero seconds and whose selector is a recognized one.
C29_RoundTrip ==
    /\ lastOp = "SpeedProfile::roundTrip" => result = <<subject[2]>>
    /\ (/\ lastOp = "ScheduleEntry::roundTrip"
        /\ subject[2].startTime >= 0 /\ subject[2].startTime % 60 = 0
        /\ subject[2].endTime >= 0 /\ subject[2].endTime % 60 = 0
        /\ subject[2].days \in RecognizedDays)
          => result = <<subject[2]>>

\* C29 witness: an entry from 23:59 to 01:01 on Sundays came back as it was.
C29_Witness ==
    /\ lastOp = "ScheduleEntry::roundTrip"
    /\ subject[2].startTime = 86340
    /\ subject[2].endTime = 3660
    /\ subject[2].days = Sunday
    /\ subject[2].profileName = "Work"
    /\ result = <<subject[2]>>

\* ------------------------------------------------------------ the dialogs

\* QString::trimmed on a text given as its sequence of characters
RECURSIVE TrimmedLeft(_)
TrimmedLeft(text) ==
    IF text # <<>> /\ text[1] = " " THEN TrimmedLeft(Tail(text)) ELSE text

RECURSIVE TrimmedRight(_)
TrimmedRight(text) ==
    IF text # <<>> /\ text[Len(text)] = " "
    THEN TrimmedRight(SubSeq(text, 1, Len(text) - 1)) ELSE text

Trimmed(text) == TrimmedRight(TrimmedLeft(text))

\* Division of two C++ ints with a positive divisor: the quotient is truncated
\* towards zero.
IntDivide(a, b) == IF a >= 0 THEN a \div b ELSE -((-a) \div b)

\* QSpinBox::setValue: the value, brought into the range of the spin box
SpinBoxSetValue(value, range) ==
    IF value < range[1] THEN range[1]
    ELSE IF value > range[2] THEN range[2]
    ELSE value

\* The widgets of a SpeedProfileDialog
SpeedProfileWidgets(lineEditName, spinDownloadLimit, spinUploadLimit) ==
    [lineEditName |-> lineEditName, spinDownloadLimit |-> spinDownloadLimit,
     spinUploadLimit |-> spinUploadLimit]

\* SpeedProfileDialog::SpeedProfileDialog(parent, profile), for an existing
\* profile: the widgets as the constructor leaves them.
SpeedProfileDialog(profile, range) ==
    SpeedProfileWidgets(profile.name,
                        SpinBoxSetValue(IntDivide(profile.downloadLimit, 1024), range),
                        SpinBoxSetValue(IntDivide(profile.uploadLimit, 1024), range))

\* SpeedProfileDialog::getProfile
getProfile(ui) ==
    SpeedProfile(Trimmed(ui.lineEditName),
                 ui.spinDownloadLimit * 1024,
                 ui.spinUploadLimit * 1024)

\* What accept() leaves of a dialog: closed as accepted, or open as it was.
DialogAccepted == [open |-> FALSE, accepted |-> TRUE]
DialogStillOpen == [open |-> TRUE, accepted |-> FALSE]

\* SpeedProfileDialog::accept, testing the name as typed
SpeedProfileDialogAcceptUntrimmed(ui) ==
    IF ui.lineEditName = <<>> THEN DialogStillOpen ELSE DialogAccepted

\* SpeedProfileDialog::accept
SpeedProfileDialogAccept(ui) ==
    LET name == Trimmed(ui.lineEditName)
    IN  IF name = <<>> THEN DialogStillOpen ELSE DialogAccepted

\* ScheduleEntryDialog::accept
ScheduleEntryDialogAccept(ui) ==
    IF ui.comboBoxProfile.currentIndex < 0 THEN DialogStillOpen ELSE DialogAccepted

\* ------------------------------------ specification: the dialogs in use

\* Texts of a name field, as sequences of characters
NameTexts == SeqUpTo({" ", "a"}, 2)

\* Ranges the two spin boxes may have been given by the form: the range of a
\* QSpinBox as constructed, and a range from -1 up to the largest count of KiB
\* an int of bytes can hold.
SpinRanges == {<<0, 99>>, <<-1, 2097151>>}

\* Profiles handed to the dialog for editing
DialogProfiles ==
    {SpeedProfile(n, dl, ul) : n \in NameTexts,
                               dl \in {-1, 0, 1, 1023, 1024, 1500, 2048},
                               ul \in {-1, 0, 1, 1023, 1024, 1500, 2048}}

\* A SpeedProfileDialog as the user may have left it
SpeedProfileDialogs ==
    {SpeedProfileWidgets(n, dl, ul) : n \in NameTexts, dl \in 0..1, ul \in 0..1}

\* A ScheduleEntryDialog as it may stand: a combo box of some profiles with one
\* of them current, or none.
ScheduleEntryDialogs ==
    UNION {{[comboBoxProfile |-> [count |-> n, currentIndex |-> i]] :
               i \in -1..(n - 1)} : n \in 0..2}

InitDialog ==
    /\ now = 0
    /\ day = 1
    /\ schedules = <<>>
    /\ defaultSpeedProfile = "Normal"
    /\ LegacyWindowAtRest
    /\ SchedulerConstructed
    /\ lastOp = "none"
    /\ subject \in {<<"SpeedProfileEdit", x, r>> : x \in DialogProfiles, r \in SpinRanges}
                      \cup {<<"SpeedProfileDialog", x, <<>>>> : x \in SpeedProfileDialogs}
                      \cup {<<"ScheduleEntryDialog", x, <<>>>> : x \in ScheduleEntryDialogs}
    /\ result = <<>>

\* A profile is opened in a SpeedProfileDialog and read back with getProfile(),
\* no field touched.
applyEditUntouched ==
    /\ lastOp = "none"
    /\ subject[1] = "SpeedProfileEdit"
    /\ lastOp' = "SpeedProfileDialog::getProfile"
    /\ result' = <<getProfile(SpeedProfileDialog(subject[2], subject[3]))>>
    /\ UNCHANGED <<clockVars, storeVars, schedulerVars, subject>>

\* The user presses OK in a SpeedProfileDialog.
acceptSpeedProfileDialog ==
    /\ lastOp = "none"
    /\ subject[1] = "SpeedProfileDialog"
    /\ lastOp' = "SpeedProfileDialog::accept"
    /\ result' = <<SpeedProfileDialogAccept(subject[2])>>
    /\ UNCHANGED <<clockVars, storeVars, schedulerVars, subject>>

\* The user presses OK in a ScheduleEntryDialog.
acceptScheduleEntryDialog ==
    /\ lastOp = "none"
    /\ subject[1] = "ScheduleEntryDialog"
    /\ lastOp' = "ScheduleEntryDialog::accept"
    /\ result' = <<ScheduleEntryDialogAccept(subject[2])>>
    /\ UNCHANGED <<clockVars, storeVars, schedulerVars, subject>>

NextDialog ==
    \/ applyEditUntouched
    \/ acceptSpeedProfileDialog
    \/ acceptScheduleEntryDialog

SpecDialog == InitDialog /\ [][NextDialog]_vars

\* A text that is empty once trimmed: it holds nothing but blanks.
BlankText(text) == \A i \in 1..Len(text) : text[i] = " "

\* C23: SpeedProfileDialog.accept() leaves the dialog open and unaccepted when
\* the trimmed name is empty, ScheduleEntryDialog.accept() when no profile is
\* current (index < 0); in every other case accept() closes the dialog as
\* accepted.
C23_AcceptRejectsBadInput ==
    /\ lastOp = "SpeedProfileDialog::accept"
          => result = <<IF BlankText(subject[2].lineEditName)
                        THEN [open |-> TRUE, accepted |-> FALSE]
                        ELSE [open |-> FALSE, accepted |-> TRUE]>>
    /\ lastOp = "ScheduleEntryDialog::accept"
          => result = <<IF subject[2].comboBoxProfile.currentIndex < 0
                        THEN [open |-> TRUE, accepted |-> FALSE]
                        ELSE [open |-> FALSE, accepted |-> TRUE]>>

\* C23 witness: OK was pressed on a name of blanks only, and the dialog stayed
\* open.
C23_Witness ==
    /\ lastOp = "SpeedProfileDialog::accept"
    /\ subject[2].lineEditName = <<" ", " ">>
    /\ result = <<[open |-> TRUE, accepted |-> FALSE]>>

\* C30 as stated: a valid profile opened in SpeedProfileDialog and read back
\* with getProfile(), no field touched, equals the original.
C30_AsStated ==
    (/\ lastOp = "SpeedProfileDialog::getProfile"
     /\ subject[2].name # <<>>
     /\ subject[2].downloadLimit >= -1
     /\ subject[2].uploadLimit >= -1)
        => result = <<subject[2]>>

====
